---------------------------- MODULE Spec2Model ----------------------------
(***************************************************************************)
(* A model of the two algorithmic cores of claude-flow's v3 CLI:           *)
(*   - QLearningRouter   (cli/src/commands/index.ts)                       *)
(*   - FlashAttention    (cli/src/ruvector/flash-attention.ts)             *)
(*                                                                         *)
(* Numbers.  Q-values live in a Float32Array and are computed on in        *)
(* doubles.  A real number x is held as the integer x * Unit; every input  *)
(* the model draws is a multiple of 1/Unit small enough that the double    *)
(* arithmetic of the code is exact on it, and the store into the           *)
(* Float32Array is the rounding Fround (24-bit significand, ties to even). *)
(***************************************************************************)
EXTENDS Integers, Sequences, FiniteSets, TLC

\* ------------------------------------------------------------------ bounds
\* Most successful update() calls between two reset() calls.
MaxSteps == 2
\* Latest reading of the clock (Date.now()), in ticks.
MaxNow == 1
\* Most query vectors, most key (and value) vectors, largest block size.
MaxQueries == 3
MaxKeys == 3
MaxBlockSize == 3

\* ------------------------------------------------------- program constants
\* Significand width of a Float32Array element (QEntry.qValues).
MantissaBits == 24
\* DEFAULT_CONFIG.numActions
NumActions == 8

ROUTE_NAMES ==
  << "coder", "tester", "reviewer", "architect",
     "researcher", "optimizer", "debugger", "documenter" >>

\* ---------------------------------------------------------------- numbers
\* 1.0 on the grid: 24 significand bits and one more bit for every halving
\* (learningRate 1/2) a value can go through.
Unit == 2^(MantissaBits + MaxSteps)
Half == Unit \div 2
\* 0.5 + 2^-24: a reward whose update of a stored 0.5 needs 25 bits.
HalfPlus == Half + 2^MaxSteps

Abs(x) == IF x < 0 THEN -x ELSE x

Max2(a, b) == IF a >= b THEN a ELSE b

RECURSIVE Ulp(_, _)
\* The spacing of single-precision numbers around a (a >= 0, in grid units).
Ulp(a, u) == IF a \div u < 2^MantissaBits THEN u ELSE Ulp(a, 2 * u)

\* Storing the double x into a Float32Array element: round to nearest,
\* ties to even.
Fround(x) ==
  LET a == Abs(x)
      u == Ulp(a, 1)
      q == a \div u
      r == a % u
      m == IF 2 * r < u THEN q
           ELSE IF 2 * r > u THEN q + 1
           ELSE IF q % 2 = 0 THEN q ELSE q + 1
  IN  IF x < 0 THEN -(m * u) ELSE m * u

\* ------------------------------------------------------------- hashState
\* A 32-bit integer as (hi, lo): hi signed 16 bits, lo unsigned 16 bits.
ToInt32(hi, lo) ==
  LET l == lo % 65536
      h == (hi + (lo \div 65536)) % 65536
  IN  (IF h >= 32768 THEN h - 65536 ELSE h) * 65536 + l

Hi16(h) == h \div 65536
Lo16(h) == h % 65536

\* hash = ((hash << 5) - hash) + char;  hash = hash & hash
HashStep(h, c) ==
  LET shl == ToInt32(Hi16(h) * 32, Lo16(h) * 32)
  IN  ToInt32(Hi16(shl) - Hi16(h), Lo16(shl) - Lo16(h) + c)

RECURSIVE HashFoldPrefix(_, _, _)
\* A slip: i < Math.min(context.length, 4), a hash of the first characters.
HashFoldPrefix(h, text, i) ==
  IF i > Len(text) \/ i > 4 THEN h
  ELSE HashFoldPrefix(HashStep(h, text[i]), text, i + 1)

RECURSIVE HashFold(_, _, _)
HashFold(h, text, i) ==
  IF i > Len(text) THEN h ELSE HashFold(HashStep(h, text[i]), text, i + 1)

\* text is the sequence of the task text's UTF-16 code units.
hashState(text) == "state_" \o ToString(HashFold(0, text, 1))

\* ------------------------------------------------------------ router state
VARIABLES
  config,       \* QLearningRouter.config (fixed at construction)
  qTable,       \* Map<string, QEntry>, as the sequence of its entries in
                \* insertion order: [key, qValues, visits, lastUpdate]
  epsilon,      \* in units of 1/EpsUnit
  stepCount,
  updateCount,
  avgTDError,
  now,          \* the clock read by Date.now()
  last,         \* the last call on the router, its arguments and its result
  routeCache,   \* Map<string, CacheEntry>, as the sequence of its entries
  cacheHits,
  replayBuffer, \* Experience[]
  totalExperiences

\* The fields of the decision cache and of the experience replay buffer.
wiringVars == << routeCache, cacheHits, replayBuffer, totalExperiences >>

routerVars ==
  << config, qTable, epsilon, stepCount, updateCount, avgTDError, now, last,
     wiringVars >>

\* --------------------------------------------------------- attention state
VARIABLES
  flashConfig,     \* FlashAttention.config
  inputs,          \* the caller's <<queries, keys, values>>
  pc,              \* "idle", or "block" inside blockAttention's loops
  args,            \* the arguments of the call in progress or last made
  kStart,          \* blockAttention's loop variables
  qStart,
  output,          \* blockAttention's locals: Float32Array[numQueries]
  maxScores,
  sumExp,
  scoresComputed,  \* dotProduct(...) * scale evaluations of the call
  result           \* what the last call returned or threw

attnVars ==
  << flashConfig, inputs, pc, args, kStart, qStart, output, maxScores, sumExp,
     scoresComputed, result >>

\* 1.0 for explorationInitial, explorationFinal and epsilon.
EpsUnit == 2 * 2

\* learningRate and gamma are fractions <<numerator, denominator>>.
MulFrac(f, x) == (f[1] * x) \div f[2]

\* A configuration the constructor is given (it takes any
\* Partial<QLearningRouterConfig> and validates nothing); exploration is
\* <<explorationInitial, explorationFinal, explorationDecay>>, the first two
\* in units of 1/EpsUnit.
Config(exploration, maxStates) ==
  [ learningRate       |-> << 1, 2 >>,
    gamma              |-> << 1, 1 >>,
    explorationInitial |-> exploration[1],
    explorationFinal   |-> exploration[2],
    explorationDecay   |-> exploration[3],
    explorationDecayType |-> "exponential",
    enableReplay       |-> TRUE,
    maxStates          |-> maxStates,
    numActions         |-> NumActions ]

\* { ...DEFAULT_CONFIG, ...config } for a config that names its decay law
ConfigOfType(exploration, maxStates, decayType) ==
  [ Config(exploration, maxStates) EXCEPT !.explorationDecayType = decayType ]

\* ----------------------------------------------------------- table access
Keys(tbl) == { tbl[i].key : i \in 1..Len(tbl) }

\* Map.get: the position of key's entry, 0 when there is none.
Pos(tbl, key) ==
  IF key \in Keys(tbl)
    THEN CHOOSE i \in 1..Len(tbl) : tbl[i].key = key
    ELSE 0

Zeros(n) == [ i \in 1..n |-> 0 ]

\* A slip: the values as they were before any update, as a decision cache
\* that update() does not invalidate would serve them.
getQValuesStale(tbl, cfg, stateKey) == Zeros(cfg.numActions)

getQValues(tbl, cfg, stateKey) ==
  IF Pos(tbl, stateKey) = 0
    THEN Zeros(cfg.numActions)
    ELSE tbl[Pos(tbl, stateKey)].qValues

\* The table after getOrCreateEntry(stateKey) at clock reading t.
getOrCreateEntry(tbl, cfg, stateKey, t) ==
  IF Pos(tbl, stateKey) # 0 THEN tbl
  ELSE Append(tbl, [ key |-> stateKey, qValues |-> Zeros(cfg.numActions),
                     visits |-> 0, lastUpdate |-> t ])

RECURSIVE MaxOf(_, _)
\* Math.max(...values) of a non-empty array, from position i on.
MaxOf(values, i) ==
  IF i = Len(values) THEN values[i]
  ELSE Max2(values[i], MaxOf(values, i + 1))

RECURSIVE ArgmaxFrom(_, _, _, _)
ArgmaxFrom(values, i, maxIdx, maxVal) ==
  IF i > Len(values) THEN maxIdx
  ELSE IF values[i] > maxVal
    THEN ArgmaxFrom(values, i + 1, i, values[i])
    ELSE ArgmaxFrom(values, i + 1, maxIdx, maxVal)

\* A slip: >= in the comparison, so the last of several maxima wins.
argmaxLast(values) ==
  CHOOSE i \in 1..Len(values) :
    /\ \A j \in 1..Len(values) : values[j] <= values[i]
    /\ \A j \in (i + 1)..Len(values) : values[j] < values[i]

\* argmax; positions are 1-based here, so the code's index is one less.
argmax(values) == ArgmaxFrom(values, 2, 1, values[1])

\* ROUTE_NAMES[actionIdx] || 'coder'
RouteName(idx) ==
  IF idx \in 1..Len(ROUTE_NAMES) THEN ROUTE_NAMES[idx] ELSE "coder"

\* A slip: an unknown label falling back to 'coder', as route() does for an
\* index out of range.
IndexOfRouteOrCoder(action) ==
  IF \E i \in 1..Len(ROUTE_NAMES) : ROUTE_NAMES[i] = action
    THEN CHOOSE i \in 1..Len(ROUTE_NAMES) : ROUTE_NAMES[i] = action
    ELSE 1

\* ROUTE_NAMES.indexOf(action), 0 for -1.
IndexOfRoute(action) ==
  IF \E i \in 1..Len(ROUTE_NAMES) : ROUTE_NAMES[i] = action
    THEN CHOOSE i \in 1..Len(ROUTE_NAMES) : ROUTE_NAMES[i] = action
    ELSE 0

\* softmaxConfidence, with Math.exp left uninterpreted: the result stands
\* for exp(num) / (exp(den[1]) + ... + exp(den[n])).
softmaxConfidence(qValues, actionIdx) ==
  LET maxQ == MaxOf(qValues, 1)
  IN  [ num |-> qValues[actionIdx] - maxQ,
        den |-> [ i \in 1..Len(qValues) |-> qValues[i] - maxQ ] ]

\* The place of route i after the stable descending sort by score.
SortRank(qValues, i) ==
  Cardinality({ j \in 1..Len(ROUTE_NAMES) : qValues[j] > qValues[i] })
  + Cardinality({ j \in 1..(i - 1) : qValues[j] = qValues[i] }) + 1

\* ROUTE_NAMES.map(...).sort((a, b) => b.score - a.score).slice(1, 4)
Alternatives(qValues) ==
  [ p \in 1..3 |->
      LET i == CHOOSE k \in 1..Len(ROUTE_NAMES) : SortRank(qValues, k) = p + 1
      IN  [ route |-> ROUTE_NAMES[i], score |-> qValues[i] ] ]

\* ------------------------------------------------------------ pruneQTable
\* The place of entry i after the stable ascending sort by lastUpdate.
PruneRank(tbl, i) ==
  Cardinality({ j \in 1..Len(tbl) : tbl[j].lastUpdate < tbl[i].lastUpdate })
  + Cardinality({ j \in 1..(i - 1) : tbl[j].lastUpdate = tbl[i].lastUpdate })
  + 1

\* Math.floor(maxStates * 0.8)
PruneTarget(maxStates) == (maxStates * 8) \div 10

SelectIdx(tbl, keep) ==
  LET F[i \in 0..Len(tbl)] ==
        IF i = 0 THEN << >>
        ELSE IF i \in keep THEN Append(F[i - 1], tbl[i]) ELSE F[i - 1]
  IN  F[Len(tbl)]

\* A slip: only the single oldest entry is evicted.
pruneQTableOldest(tbl, cfg) ==
  SelectIdx(tbl, { i \in 1..Len(tbl) : PruneRank(tbl, i) > 1 })

\* A slip: the sort descending (b - a), so the newest entries are evicted.
pruneQTableNewest(tbl, cfg) ==
  LET toRemove == Len(tbl) - PruneTarget(cfg.maxStates)
  IN  SelectIdx(tbl, { i \in 1..Len(tbl) :
                         PruneRank(tbl, i) <= Len(tbl) - toRemove })

pruneQTable(tbl, cfg) ==
  LET toRemove == Len(tbl) - PruneTarget(cfg.maxStates)
  IN  SelectIdx(tbl, { i \in 1..Len(tbl) : PruneRank(tbl, i) > toRemove })

\* ------------------------------------------------------------------ route
\* A slip: route() looking the state up with getOrCreateEntry.
TableAfterLookupCreating(tbl, cfg, stateKey, t) ==
  getOrCreateEntry(tbl, cfg, stateKey, t)

\* The Q-table after route()'s lookup: getQValues reads and creates nothing.
TableAfterLookup(tbl, cfg, stateKey, t) == tbl

\* route(taskContext, explore) where Math.random() < epsilon came out as
\* shouldExplore and Math.floor(Math.random() * numActions) as randomIdx - 1.
RouteDecision(tbl, cfg, taskContext, shouldExplore, randomIdx) ==
  LET stateKey  == hashState(taskContext)
      qValues   == getQValues(tbl, cfg, stateKey)
      actionIdx == IF shouldExplore THEN randomIdx ELSE argmax(qValues)
  IN  [ route        |-> RouteName(actionIdx),
        confidence   |-> softmaxConfidence(qValues, actionIdx),
        qValues      |-> qValues,
        explored     |-> shouldExplore,
        alternatives |-> Alternatives(qValues) ]

\* ----------------------------------------------------------------- update
\* if (nextContext): undefined and the empty string are both falsy.
NoNext == << -1 >>
Truthy(nextContext) == nextContext # NoNext /\ nextContext # << >>

TargetQ(tbl, cfg, reward, nextContext) ==
  IF Truthy(nextContext)
    THEN reward + MulFrac(cfg.gamma,
                          MaxOf(getQValues(tbl, cfg, hashState(nextContext)), 1))
    ELSE reward

\* A slip: the linear law without its floor.
DecayedEpsilonNoFloor(cfg, step) ==
  cfg.explorationInitial - (step * EpsUnit) \div Abs(cfg.explorationDecay)

\* epsilon after the step-th update: always the linear law.
DecayedEpsilon(cfg, step) ==
  LET d == cfg.explorationDecay
      q == IF d > 0 THEN (step * EpsUnit) \div d
           ELSE -((step * EpsUnit) \div (-d))
  IN  Max2(cfg.explorationFinal, cfg.explorationInitial - q)

\* The entry after lines 475-477.
\* A slip: the step taken away from the target.
UpdatedEntryAway(entry, cfg, actionIdx, tdError, t) ==
  [ entry EXCEPT
      !.qValues[actionIdx] = Fround(@ - MulFrac(cfg.learningRate, tdError)),
      !.visits = @ + 1,
      !.lastUpdate = t ]

UpdatedEntry(entry, cfg, actionIdx, tdError, t) ==
  [ entry EXCEPT
      !.qValues[actionIdx] = Fround(@ + MulFrac(cfg.learningRate, tdError)),
      !.visits = @ + 1,
      !.lastUpdate = t ]

\* (avgTDError * (updateCount - 1) + |tdError|) / updateCount, the quotient
\* cut to the grid.
NextAvg(avg, count, tdError) == (avg * (count - 1) + Abs(tdError)) \div count

\* update() that looks the next state up with getOrCreateEntry
UpdateOutcomeTouchNext(tbl, cfg, taskContext, actionIdx, reward, nextContext, t) ==
  LET stateKey == hashState(taskContext)
      tbl0     == getOrCreateEntry(tbl, cfg, stateKey, t)
      tbl1     == IF Truthy(nextContext)
                    THEN getOrCreateEntry(tbl0, cfg, hashState(nextContext), t)
                    ELSE tbl0
      p        == Pos(tbl1, stateKey)
      currentQ == tbl1[p].qValues[actionIdx]
      targetQ  == TargetQ(tbl1, cfg, reward, nextContext)
      tdError  == targetQ - currentQ
      tbl2     == [ tbl1 EXCEPT
                      ![p] = UpdatedEntry(@, cfg, actionIdx, tdError, t) ]
      pruned   == Len(tbl2) > cfg.maxStates
  IN  [ table   |-> IF pruned THEN pruneQTable(tbl2, cfg) ELSE tbl2,
        tdError |-> tdError,
        targetQ |-> targetQ,
        pruned  |-> pruned ]

\* update() with a recognized action at clock reading t: the table, the
\* TD error and the target.
UpdateOutcome(tbl, cfg, taskContext, actionIdx, reward, nextContext, t) ==
  LET stateKey == hashState(taskContext)
      tbl1     == getOrCreateEntry(tbl, cfg, stateKey, t)
      p        == Pos(tbl1, stateKey)
      currentQ == tbl1[p].qValues[actionIdx]
      targetQ  == TargetQ(tbl1, cfg, reward, nextContext)
      tdError  == targetQ - currentQ
      tbl2     == [ tbl1 EXCEPT
                      ![p] = UpdatedEntry(@, cfg, actionIdx, tdError, t) ]
      pruned   == Len(tbl2) > cfg.maxStates
  IN  [ table   |-> IF pruned THEN pruneQTable(tbl2, cfg) ELSE tbl2,
        tdError |-> tdError,
        targetQ |-> targetQ,
        pruned  |-> pruned ]

\* ---------------------------------------------------------- export/import
\* export(): key, values and visits of every entry, lastUpdate left out.
ExportTable(tbl) ==
  [ i \in 1..Len(tbl) |->
      [ key |-> tbl[i].key, qValues |-> tbl[i].qValues,
        visits |-> tbl[i].visits ] ]

\* Map.set: a key already present keeps its place and takes the new value.
MapSet(tbl, entry) ==
  IF Pos(tbl, entry.key) = 0 THEN Append(tbl, entry)
  ELSE [ tbl EXCEPT ![Pos(tbl, entry.key)] = entry ]

\* An entry of the imported data that is null or undefined.
NullEntry == [ null |-> TRUE ]

\* A slip: new Float32Array(entry.qValues.length), which copies no value.
ImportedEntryZeroed(key, e, t) ==
  [ key |-> key, qValues |-> Zeros(Len(e.qValues)),
    visits |-> e.visits, lastUpdate |-> t ]

ImportedEntry(key, e, t) ==
  [ key |-> key,
    qValues |-> [ i \in 1..Len(e.qValues) |-> Fround(e.qValues[i]) ],
    visits |-> e.visits, lastUpdate |-> t ]

RECURSIVE ImportFrom(_, _, _, _)
\* The loop of import() from entry i on: ok is FALSE when reading
\* entry.qValues of a null entry threw, with the table as it was then.
ImportFrom(tbl, data, i, t) ==
  IF i > Len(data) THEN [ table |-> tbl, ok |-> TRUE ]
  ELSE IF data[i].entry = NullEntry THEN [ table |-> tbl, ok |-> FALSE ]
  ELSE ImportFrom(MapSet(tbl, ImportedEntry(data[i].key, data[i].entry, t)),
                  data, i + 1, t)

\* import(data): this.qTable.clear(), then the loop.  data is the sequence
\* of Object.entries(data): [key, entry].
ImportOutcome(data, t) == ImportFrom(<< >>, data, 1, t)

\* The data import() is handed for what export() returned.
AsData(exported) ==
  [ i \in 1..Len(exported) |->
      [ key |-> exported[i].key,
        entry |-> [ qValues |-> exported[i].qValues,
                    visits |-> exported[i].visits ] ] ]

\* ============================================================ FlashAttention
\* Numbers.  A vector component is a small integer.  A score is held as the
\* integer 2 * score.  Math.exp is used by the code only through
\* exp(0) = 1 and exp(a + b) = exp(a) * exp(b); the model takes 4^x for it,
\* so that Exp of a score difference is a power of two.  Weights, sums and
\* outputs are held on the grid of 1/AttnUnit, four bits finer than a
\* significand: a quotient down to 1/32 keeps its 24 significant bits.
AttnUnit == 2^(MantissaBits + 4)

\* constructor: blockSize ?? 64
DefaultBlockSize == 64
\* attention(): numQueries * numKeys > 1024
BlockThreshold == 1024
\* new Float32Array(numQueries).fill(-Infinity): below every score
NegInfinity == -(AttnUnit)

Min2(a, b) == IF a <= b THEN a ELSE b

\* Math.sqrt(dimensions), for the dimensions the model draws (squares)
Sqrt(n) == CHOOSE r \in 0..n : r * r = n

\* scale = 1.0 / (Math.sqrt(dimensions) * temperature), in score units
scale(dimensions, cfg) == 2 \div (Sqrt(dimensions) * cfg.temperature)

\* Math.exp(d) for a score difference d <= 0
Exp(d) == AttnUnit \div 2^(-d)

\* x * y in double arithmetic, for y a value of Exp or 0
MulExp(x, y) == IF y = 0 THEN 0 ELSE x \div (AttnUnit \div y)

RECURSIVE QuotRem(_, _, _)
\* << floor(a * 2^bits / b), (a * 2^bits) mod b >> for a >= 0 and b > 0
QuotRem(a, b, bits) ==
  IF bits = 0 THEN << a \div b, a % b >>
  ELSE LET p == QuotRem(a, b, bits - 1)
       IN  << 2 * p[1] + (2 * p[2]) \div b, (2 * p[2]) % b >>

\* Storing x / y (y > 0) into a Float32Array element: the quotient rounded
\* to nearest, ties to even.
FroundDiv(x, y) ==
  LET p == QuotRem(Abs(x), y, MantissaBits + 4)
      q == p[1]
      u == Ulp(q, 1)
      lo == q % u
      n == q \div u
      up == IF u = 1
              THEN 2 * p[2] > y \/ (2 * p[2] = y /\ n % 2 = 1)
              ELSE 2 * lo > u
                   \/ (2 * lo = u /\ (p[2] # 0 \/ n % 2 = 1))
      m == IF up THEN n + 1 ELSE n
  IN  IF x < 0 THEN -(m * u) ELSE m * u

RECURSIVE SumUnrolled(_, _, _, _)
\* for (; i <= len - 4; i += 4) sum += a[i]*b[i] + ... + a[i+3]*b[i+3]
SumUnrolled(a, b, i, len) ==
  IF i <= len - 4
    THEN a[i + 1] * b[i + 1] + a[i + 2] * b[i + 2]
         + a[i + 3] * b[i + 3] + a[i + 4] * b[i + 4]
         + SumUnrolled(a, b, i + 4, len)
    ELSE 0

RECURSIVE SumRest(_, _, _, _)
\* for (; i < len; i++) sum += a[i] * b[i]
SumRest(a, b, i, len) ==
  IF i < len THEN a[i + 1] * b[i + 1] + SumRest(a, b, i + 1, len) ELSE 0

dotProduct(a, b) ==
  LET len == Min2(Len(a), Len(b))
  IN  SumUnrolled(a, b, 0, len) + SumRest(a, b, 4 * (len \div 4), len)

\* The error validateInputs throws, or "ok".
validateInputs(queries, keys, values) ==
  IF Len(queries) = 0 \/ Len(keys) = 0 \/ Len(values) = 0
    THEN "Empty input arrays"
  ELSE IF Len(keys) # Len(values)
    THEN "Keys and values must have same count"
  ELSE IF Len(queries[1]) # Len(keys[1])
    THEN "Query and key dimensions must match"
  ELSE IF Len(keys[1]) # Len(values[1])
    THEN "Key and value dimensions must match"
  ELSE "ok"

RECURSIVE SeqMax(_, _, _)
\* let max = -Infinity; for (...) if (scores[i] > max) max = scores[i]
SeqMax(scores, i, max) ==
  IF i > Len(scores) THEN max
  ELSE SeqMax(scores, i + 1, IF scores[i] > max THEN scores[i] ELSE max)

RECURSIVE SeqSum(_, _)
SeqSum(xs, i) == IF i > Len(xs) THEN 0 ELSE xs[i] + SeqSum(xs, i + 1)

\* A slip: result[i] /= sum + 1.
softmaxDamped(scores) ==
  LET max == SeqMax(scores, 1, NegInfinity)
      exps == [ i \in 1..Len(scores) |-> Fround(Exp(scores[i] - max)) ]
      sum == SeqSum(exps, 1)
  IN  [ i \in 1..Len(scores) |-> FroundDiv(exps[i], sum + AttnUnit) ]

softmax(scores) ==
  LET max == SeqMax(scores, 1, NegInfinity)
      exps == [ i \in 1..Len(scores) |-> Fround(Exp(scores[i] - max)) ]
      sum == SeqSum(exps, 1)
  IN  IF sum > 0
        THEN [ i \in 1..Len(scores) |-> FroundDiv(exps[i], sum) ]
        ELSE exps

RECURSIVE WeightedSum(_, _, _, _, _)
\* for (j...) output[i][d] += weight * values[j][d], each += a store
WeightedSum(weights, values, d, j, acc) ==
  IF j > Len(values) THEN acc
  ELSE WeightedSum(weights, values, d, j + 1,
                   Fround(acc + weights[j] * values[j][d]))

naiveAttention(queries, keys, values, cfg) ==
  LET dimensions == Len(queries[1])
      sc == scale(dimensions, cfg)
      scores == [ i \in 1..Len(queries) |->
                  [ j \in 1..Len(keys) |->
                      Fround(dotProduct(queries[i], keys[j]) * sc) ] ]
      attentionWeights == [ i \in 1..Len(queries) |-> softmax(scores[i]) ]
  IN  [ i \in 1..Len(queries) |->
        [ d \in 1..dimensions |->
            WeightedSum(attentionWeights[i], values, d, 1, 0) ] ]

\* A slip: a row for every query, whatever the query block.
computeBlockScoresAllQueries(Q, K, qS, qEnd, kS, kEnd, sc) ==
  [ qi \in 1..Len(Q) |->
    [ ki \in 1..(kEnd - kS) |->
        Fround(dotProduct(Q[qi], K[kS + ki]) * sc) ] ]

\* scores[qi][ki] = dotProduct(Q[qStart + qi], K[kStart + ki]) * scale
computeBlockScores(Q, K, qS, qEnd, kS, kEnd, sc) ==
  [ qi \in 1..(qEnd - qS) |->
    [ ki \in 1..(kEnd - kS) |->
        Fround(dotProduct(Q[qS + qi], K[kS + ki]) * sc) ] ]

\* No rescaling of what earlier blocks accumulated.
correctionNone(oldMax, newMax) == AttnUnit

\* oldMax === -Infinity ? 0 : Math.exp(oldMax - newMax)
correction(oldMax, newMax) ==
  IF oldMax = NegInfinity THEN 0 ELSE Exp(oldMax - newMax)

RECURSIVE AccumulateKeys(_, _, _, _, _, _, _)
\* for (ki...) { expScore = Math.exp(rowScores[ki] - newMax);
\*               newSumExp += expScore;
\*               for (d...) output[globalQi][d] += expScore * value[d] }
AccumulateKeys(rowScores, V, kS, newMax, ki, newSumExp, row) ==
  IF ki > Len(rowScores) THEN [ newSumExp |-> newSumExp, row |-> row ]
  ELSE LET expScore == Exp(rowScores[ki] - newMax)
           value == V[kS + ki]
       IN  AccumulateKeys(rowScores, V, kS, newMax, ki + 1,
                          newSumExp + expScore,
                          [ d \in 1..Len(row) |->
                              Fround(row[d] + expScore * value[d]) ])

\* A slip: let newSumExp = 0, the sum of earlier blocks dropped.
AccumulateRowFreshSum(rowScores, V, kS, row, oldMax, oldSumExp) ==
  LET blockMax == SeqMax(rowScores, 1, NegInfinity)
      newMax == Max2(oldMax, blockMax)
      c == correction(oldMax, newMax)
      scaled == [ d \in 1..Len(row) |-> Fround(MulExp(row[d], c)) ]
  IN  AccumulateKeys(rowScores, V, kS, newMax, 1, 0, scaled)
      @@ [ newMax |-> newMax ]

\* One query row of onlineSoftmaxAccumulate: the new
\* [newSumExp, row, newMax] of query globalQi.
AccumulateRow(rowScores, V, kS, row, oldMax, oldSumExp) ==
  LET blockMax == SeqMax(rowScores, 1, NegInfinity)
      newMax == Max2(oldMax, blockMax)
      c == correction(oldMax, newMax)
      scaled == [ d \in 1..Len(row) |-> Fround(MulExp(row[d], c)) ]
  IN  AccumulateKeys(rowScores, V, kS, newMax, 1, MulExp(oldSumExp, c),
                     scaled)
      @@ [ newMax |-> newMax ]

\* A slip: qi < qBlockSize - 1, the last query of every block left out.
onlineSoftmaxAccumulateShort(blockScores, V, out, maxS, sumE, qS, qEnd, kS, kEnd) ==
  LET InBlock(i) == qS < i /\ i < qEnd
      acc == [ i \in (qS + 1)..qEnd |->
                 AccumulateRow(blockScores[i - qS], V, kS, out[i], maxS[i],
                               sumE[i]) ]
  IN  [ output |-> [ i \in 1..Len(out) |->
                       IF InBlock(i) THEN acc[i].row ELSE out[i] ],
        maxScores |-> [ i \in 1..Len(out) |->
                          IF InBlock(i) THEN acc[i].newMax ELSE maxS[i] ],
        sumExp |-> [ i \in 1..Len(out) |->
                       IF InBlock(i) THEN Fround(acc[i].newSumExp)
                       ELSE sumE[i] ] ]

\* The output, maxScores and sumExp arrays after the call.
onlineSoftmaxAccumulate(blockScores, V, out, maxS, sumE, qS, qEnd, kS, kEnd) ==
  LET InBlock(i) == qS < i /\ i <= qEnd
      acc == [ i \in (qS + 1)..qEnd |->
                 AccumulateRow(blockScores[i - qS], V, kS, out[i], maxS[i],
                               sumE[i]) ]
  IN  [ output |-> [ i \in 1..Len(out) |->
                       IF InBlock(i) THEN acc[i].row ELSE out[i] ],
        maxScores |-> [ i \in 1..Len(out) |->
                          IF InBlock(i) THEN acc[i].newMax ELSE maxS[i] ],
        sumExp |-> [ i \in 1..Len(out) |->
                       IF InBlock(i) THEN Fround(acc[i].newSumExp)
                       ELSE sumE[i] ] ]

\* if (normalizer > 0) output[i][d] /= normalizer
Normalized(out, sumE) ==
  [ i \in 1..Len(out) |->
    [ d \in 1..Len(out[i]) |->
        IF sumE[i] > 0 THEN FroundDiv(out[i][d], sumE[i]) ELSE out[i][d] ] ]

\* ---------------------------------------------------------------- actions
\* Date.now() at a call: the clock has stood still or moved on.
ClockReadings == { t \in { now, now + 1 } : t <= MaxNow }

\* constructor, for a configuration of the set given
RouterInit(configs) ==
  /\ config \in configs
  /\ qTable = << >>
  /\ epsilon = config.explorationInitial
  /\ stepCount = 0
  /\ updateCount = 0
  /\ avgTDError = 0
  /\ now = 0
  /\ last = [ op |-> "new" ]
  /\ routeCache = << >>
  /\ cacheHits = 0
  /\ replayBuffer = << >>
  /\ totalExperiences = 0

\* route(taskContext, explore); randomIdxs are the outcomes of
\* Math.floor(Math.random() * numActions) + 1 that are tried.
Route(texts, randomIdxs) ==
  \E taskContext \in texts, explore \in BOOLEAN,
     shouldExplore \in BOOLEAN, randomIdx \in randomIdxs :
    \* Math.random() is in [0, 1)
    /\ shouldExplore => explore /\ epsilon > 0
    /\ ~shouldExplore => ~explore \/ epsilon < EpsUnit
    /\ ~shouldExplore => randomIdx = CHOOSE r \in randomIdxs : TRUE
    /\ qTable' = TableAfterLookup(qTable, config, hashState(taskContext), now)
    /\ last' = [ op |-> "route", taskContext |-> taskContext,
                 explore |-> explore,
                 decision |-> RouteDecision(qTable, config, taskContext,
                                            shouldExplore, randomIdx) ]
    /\ UNCHANGED << config, epsilon, stepCount, updateCount, avgTDError, now >>
    /\ UNCHANGED << attnVars, wiringVars >>

\* update(taskContext, action, reward, nextContext), for the calls given as
\* <<taskContext, action, reward, nextContext>>
Update(calls) ==
  \E c \in calls, t \in ClockReadings :
    LET actionIdx == IndexOfRoute(c[2])
        call == [ op |-> "update", taskContext |-> c[1], action |-> c[2],
                  reward |-> c[3], nextContext |-> c[4] ]
    IN  IF actionIdx = 0
          THEN /\ last' = [ op |-> "update", action |-> c[2], returned |-> 0,
                            recognized |-> FALSE ]
               /\ UNCHANGED << config, qTable, epsilon, stepCount,
                               updateCount, avgTDError, now >>
               /\ UNCHANGED << attnVars, wiringVars >>
          ELSE LET out == UpdateOutcome(qTable, config, c[1], actionIdx,
                                        c[3], c[4], t)
               IN  /\ stepCount < MaxSteps
                   /\ qTable' = out.table
                   /\ stepCount' = stepCount + 1
                   /\ epsilon' = DecayedEpsilon(config, stepCount + 1)
                   /\ updateCount' = updateCount + 1
                   /\ avgTDError' =
                        NextAvg(avgTDError, updateCount + 1, out.tdError)
                   /\ now' = t
                   /\ last' = call @@ [ returned |-> out.tdError,
                                        recognized |-> TRUE,
                                        actionIdx |-> actionIdx,
                                        targetQ |-> out.targetQ,
                                        pruned |-> out.pruned ]
                   /\ UNCHANGED << config, attnVars, wiringVars >>

\* reset() that forgets to clear updateCount
ResetStepsOnly ==
  /\ qTable' = << >>
  /\ epsilon' = config.explorationInitial
  /\ stepCount' = 0
  /\ avgTDError' = 0
  /\ last' = [ op |-> "reset" ]
  /\ UNCHANGED << config, updateCount, now, attnVars, wiringVars >>

\* reset()
Reset ==
  /\ qTable' = << >>
  /\ epsilon' = config.explorationInitial
  /\ stepCount' = 0
  /\ updateCount' = 0
  /\ avgTDError' = 0
  /\ last' = [ op |-> "reset" ]
  /\ UNCHANGED << config, now, attnVars, wiringVars >>

\* export()
Export ==
  /\ last' = [ op |-> "export", returned |-> ExportTable(qTable) ]
  /\ UNCHANGED << config, qTable, epsilon, stepCount, updateCount,
                  avgTDError, now >>
  /\ UNCHANGED << attnVars, wiringVars >>

\* import(data), for the data of the set given
Import(dataSet) ==
  \E data \in dataSet, t \in ClockReadings :
    LET out == ImportOutcome(data, t)
    IN  /\ qTable' = out.table
        /\ now' = t
        /\ last' = [ op |-> "import", data |-> data, threw |-> ~out.ok ]
        /\ UNCHANGED << config, epsilon, stepCount, updateCount, avgTDError >>
        /\ UNCHANGED << attnVars, wiringVars >>

\* ------------------------------------------------------- attention actions
\* constructor, with no configuration given, and the vectors the caller
\* holds: one <<queries, keys, values>> of the set given
FlashInit(inputSet) ==
  /\ flashConfig = [ blockSize |-> DefaultBlockSize, dimensions |-> 384,
                     temperature |-> 1, useStableMode |-> TRUE ]
  /\ inputs \in inputSet
  /\ pc = "idle"
  /\ args = [ op |-> "new" ]
  /\ kStart = 0
  /\ qStart = 0
  /\ output = << >>
  /\ maxScores = << >>
  /\ sumExp = << >>
  /\ scoresComputed = 0
  /\ result = [ op |-> "new" ]

\* blockAttention's first lines: the output arrays and the online softmax
\* state, before the first block
EnterBlocks(op, blockSize) ==
  /\ pc' = "block"
  /\ args' = [ op |-> op, blockSize |-> blockSize ]
  /\ kStart' = 0
  /\ qStart' = 0
  /\ output' = [ i \in 1..Len(inputs[1]) |->
                 [ d \in 1..Len(inputs[1][1]) |-> 0 ] ]
  /\ maxScores' = [ i \in 1..Len(inputs[1]) |-> NegInfinity ]
  /\ sumExp' = [ i \in 1..Len(inputs[1]) |-> 0 ]
  /\ scoresComputed' = 0
  /\ result' = [ op |-> op, threw |-> FALSE, returned |-> FALSE ]

\* A slip: >= in the comparison with the threshold.
UseBlocksFrom(numQueries, numKeys) == numQueries * numKeys >= BlockThreshold

\* if (numQueries * numKeys > 1024)
UseBlocks(numQueries, numKeys) == numQueries * numKeys > BlockThreshold

\* attention(queries, keys, values)
Attention ==
  LET error == validateInputs(inputs[1], inputs[2], inputs[3])
  IN  /\ pc = "idle"
      /\ IF error # "ok"
           THEN /\ result' = [ op |-> "attention", threw |-> TRUE,
                               returned |-> FALSE, error |-> error ]
                /\ args' = [ op |-> "attention" ]
                /\ scoresComputed' = 0
                /\ UNCHANGED << pc, kStart, qStart, output, maxScores,
                                sumExp >>
         ELSE IF UseBlocks(Len(inputs[1]), Len(inputs[2]))
           THEN EnterBlocks("attention", flashConfig.blockSize)
         ELSE /\ result' = [ op |-> "attention", threw |-> FALSE,
                             returned |-> TRUE,
                             output |-> naiveAttention(inputs[1], inputs[2],
                                                       inputs[3], flashConfig) ]
              /\ args' = [ op |-> "attention" ]
              /\ scoresComputed' = Len(inputs[1]) * Len(inputs[2])
              /\ UNCHANGED << pc, kStart, qStart, output, maxScores,
                              sumExp >>
      /\ UNCHANGED << flashConfig, inputs, routerVars >>

\* blockAttention(Q, K, V, blockSize), called directly
BlockAttention(blockSizes) ==
  \E blockSize \in blockSizes :
    /\ pc = "idle"
    /\ validateInputs(inputs[1], inputs[2], inputs[3]) = "ok"
    /\ EnterBlocks("blockAttention", blockSize)
    /\ UNCHANGED << flashConfig, inputs, routerVars >>

\* The loop headers of blockAttention for one pass: both loops step by
\* blockSize, the inner one over the queries, the outer one over the keys.
\* With a negative block size qEnd is below qStart and the pass ends the
\* call: computeBlockScores throws the RangeError of new Array(qBlockSize).
LoopControl ==
  LET numQueries == Len(inputs[1])
      numKeys == Len(inputs[2])
      qEnd == Min2(qStart + args.blockSize, numQueries)
  IN  /\ pc = "block"
      /\ kStart < numKeys
      /\ IF qEnd < qStart
           THEN /\ pc' = "idle"
                /\ kStart' = 0
                /\ qStart' = 0
         ELSE IF qStart + args.blockSize < numQueries
           THEN /\ pc' = pc
                /\ qStart' = qStart + args.blockSize
                /\ kStart' = kStart
         ELSE /\ pc' = pc
              /\ qStart' = 0
              /\ kStart' = kStart + args.blockSize

\* One pass of the inner loop: computeBlockScores and
\* onlineSoftmaxAccumulate for the blocks at kStart and qStart.
BlockStep ==
  LET numQueries == Len(inputs[1])
      numKeys == Len(inputs[2])
      kEnd == Min2(kStart + args.blockSize, numKeys)
      qEnd == Min2(qStart + args.blockSize, numQueries)
      sc == scale(Len(inputs[1][1]), flashConfig)
      blockScores == computeBlockScores(inputs[1], inputs[2], qStart, qEnd,
                                        kStart, kEnd, sc)
      acc == onlineSoftmaxAccumulate(blockScores, inputs[3], output,
                                     maxScores, sumExp, qStart, qEnd,
                                     kStart, kEnd)
  IN  /\ LoopControl
      /\ IF qEnd < qStart
           THEN /\ result' = [ op |-> args.op, threw |-> TRUE,
                               returned |-> FALSE, error |-> "RangeError" ]
                /\ output' = << >>
                /\ maxScores' = << >>
                /\ sumExp' = << >>
                /\ UNCHANGED scoresComputed
           ELSE /\ output' = acc.output
                /\ maxScores' = acc.maxScores
                /\ sumExp' = acc.sumExp
                /\ scoresComputed' =
                     scoresComputed + (qEnd - qStart) * (kEnd - kStart)
                /\ UNCHANGED result
      /\ UNCHANGED << flashConfig, inputs, args, routerVars >>

\* The outer loop's condition has failed: the call leaves the loops.
LoopDone ==
  /\ pc = "block"
  /\ kStart >= Len(inputs[2])
  /\ pc' = "idle"
  /\ kStart' = 0
  /\ qStart' = 0

\* After the loops: normalize by the final sums and return; the locals go
\* out of scope.
BlockReturn ==
  /\ LoopDone
  /\ result' = [ op |-> args.op, threw |-> FALSE, returned |-> TRUE,
                 output |-> Normalized(output, sumExp) ]
  /\ output' = << >>
  /\ maxScores' = << >>
  /\ sumExp' = << >>
  /\ UNCHANGED << flashConfig, inputs, args, scoresComputed, routerVars >>

\* setConfig({ blockSize }), between calls: no value is refused
SetConfig(blockSizes) ==
  \E blockSize \in blockSizes :
    /\ pc = "idle"
    /\ flashConfig' = [ flashConfig EXCEPT !.blockSize = blockSize ]
    /\ UNCHANGED << inputs, pc, args, kStart, qStart, output, maxScores,
                    sumExp, scoresComputed, result, routerVars >>

\* ----------------------------------------------------------------- inputs
\* Task texts as UTF-16 code units.
TextEmpty == << >>
TextA == << 97 >>
\* "Aa" and "BB" have the same hash.
TextAa == << 65, 97 >>
TextBB == << 66, 66 >>

Row(a, b) ==
  [ i \in 1..NumActions |-> IF i = 1 THEN a ELSE IF i = 2 THEN b ELSE 0 ]

DataEntry(k, a, b, v) ==
  [ key |-> k, entry |-> [ qValues |-> Row(a, b), visits |-> v ] ]

\* Persisted tables with one value per route in every entry.
DataOne == << DataEntry("state_97", Half, 0, 1) >>

DataThree ==
  << DataEntry("state_2112", 0, Half + 2^(MaxSteps - 1), 2),
     DataEntry("state_98", Half, Half, 1),
     DataEntry("state_99", Unit, 0, 1) >>

DataFour ==
  << DataEntry("state_97", 0, Half, 2),
     DataEntry("state_0", Half, Half, 1),
     DataEntry("state_2112", Unit, 0, 1),
     DataEntry("state_98", 0, 0, 1) >>

\* Malformed data: an entry with nine values, and a null entry after a
\* good one.
DataLong ==
  << [ key |-> "state_97",
       entry |-> [ qValues |-> [ i \in 1..(NumActions + 1) |->
                                   IF i > NumActions THEN Unit ELSE 0 ],
                   visits |-> 1 ] ] >>

DataNull ==
  << DataEntry("state_0", Half, 0, 1),
     [ key |-> "state_97", entry |-> NullEntry ] >>

\* One value per route in every entry, and no entry missing.
WellFormed(data) ==
  \A i \in 1..Len(data) :
    /\ data[i].entry # NullEntry
    /\ Len(data[i].entry.qValues) = NumActions

\* No vectors: what a router-only run holds for the attention engine.
NoInputs == << << >>, << >>, << >> >>

\* Vectors of dimension 1: scores 0, 2 and -2 (in halves), values 1 and -1.
\* The queries are << 1 >>, << -1 >>, << 1 >>, ...
QueryRows(n) == [ i \in 1..n |-> IF i % 2 = 1 THEN << 1 >> ELSE << -1 >> ]
KeyVectors == { << 0 >>, << 1 >> }
ValueVectors == { << 1 >>, << -1 >> }

\* N queries, M keys and M values of one dimension, N and M within bounds
NarrowInputs ==
  UNION { { QueryRows(n) } \X [ 1..m -> KeyVectors ]
            \X [ 1..m -> ValueVectors ] :
          n \in 1..MaxQueries, m \in 1..MaxKeys }

\* Dimension 4 (scale 1/2): dotProduct's unrolled loop.
WideInputs ==
  { << << << 1, 1, 0, 0 >>, << 0, 0, 1, -1 >> >>,
       << << 0, 0, 0, 0 >>, << 1, 0, 0, 0 >>, << 1, 1, 0, 0 >> >>,
       << << 1, 0, -1, 1 >>, << -1, 1, 0, 0 >>, << 1, 1, 1, -1 >> >> >>,
    << << << 1, -1, 1, 0 >> >>,
       << << 1, 0, 1, 0 >>, << 1, 0, 0, 1 >> >>,
       << << 1, 1, 1, 1 >>, << 0, -1, 0, 1 >> >> >> }

\* Inputs the data model rules out.
EmptyInputs ==
  { << << >>, << << 1 >> >>, << << 1 >> >> >>,
    << << << 1 >> >>, << >>, << >> >>,
    << << << 1 >> >>, << << 1 >> >>, << >> >> }

CountMismatch ==
  { << << << 1 >> >>, << << 1 >>, << 0 >> >>, << << 1 >> >> >> }

\* The first query, key and value are not of one dimension.
FirstDimMismatch ==
  { << << << 1 >> >>, << << 1, 0, 0, 0 >> >>, << << 1, 0, 0, 0 >> >> >>,
    << << << 1 >> >>, << << 1 >> >>, << << 1, 0, 0, 0 >> >> >>,
    << << << 1, 0, 0, 0 >> >>, << << 1 >> >>, << << 1 >> >> >> }

\* The first query, key and value are of dimension 1, a later vector is
\* longer.
RaggedInputs ==
  { << << << 1 >>, << 1, 1 >> >>, << << 1 >> >>, << << 1 >> >> >>,
    << << << 1 >> >>, << << 0 >>, << 1, 1, 0, 0 >> >>,
       << << 1 >>, << -1 >> >> >>,
    << << << 1 >> >>, << << 0 >>, << 1 >> >>,
       << << 1 >>, << -1, 1 >> >> >> }

vars == << routerVars, attnVars >>

\* ------------------------------------------------------- Spec: learning
\* One configuration; calls that differ in state, action, reward and next
\* state; imports that fit the table.
LearnCalls ==
  ({ TextA, TextEmpty } \X { "coder", "tester" } \X { Unit } \X { NoNext })
  \cup { << TextEmpty, "coder", HalfPlus, NoNext >>,
         << TextEmpty, "coder", Unit, TextA >>,
         << TextA, "coder", Unit, TextEmpty >>,
         << TextA, "planner", Unit, NoNext >> }

Init == RouterInit({ Config(<< EpsUnit, 1, 2 >>, 3) }) /\ FlashInit({ NoInputs })

Next ==
  \/ Route({ TextA, TextAa }, { NumActions })
  \/ Update(LearnCalls)
  \/ Reset
  \/ Export
  \/ Import({ << >>, DataOne, DataThree })

Spec == Init /\ [][Next]_vars

\* ------------------------------------------------- SpecConfig: capacity
\* Every pairing of an exploration schedule with a capacity; calls on three
\* states; an import larger than every capacity.
Explorations ==
  { << EpsUnit, 1, 2 >>,          \* 1.0 down to 0.25 within two updates
    << EpsUnit, 1, 4 >>,
    << 1, 2, 4 >>,                \* explorationFinal above explorationInitial
    << EpsUnit, 0, -4 >> }        \* a negative explorationDecay

Capacities == 1..3

ConfigCalls ==
  ({ TextA, TextAa, TextEmpty } \X { "coder" } \X { Unit } \X { NoNext })
  \cup { << TextA, "planner", Unit, NoNext >> }

InitConfig ==
  /\ RouterInit({ Config(e, ms) : e \in Explorations, ms \in Capacities })
  /\ FlashInit({ NoInputs })

NextConfig ==
  \/ Route({ TextA }, { NumActions })
  \/ Update(ConfigCalls)
  \/ Reset
  \/ Export
  \/ Import({ DataOne, DataFour })

SpecConfig == InitConfig /\ [][NextConfig]_vars

\* ----------------------------------------------- SpecImport: bad models
ImportCalls ==
  { << TextA, "coder", Unit, NoNext >>, << TextEmpty, "tester", Unit, TextA >>,
    << TextA, "planner", Unit, NoNext >> }

NextImport ==
  \/ Route({ TextA, TextEmpty }, { NumActions })
  \/ Update(ImportCalls)
  \/ Reset
  \/ Export
  \/ Import({ DataOne, DataLong, DataNull })

SpecImport == Init /\ [][NextImport]_vars

\* --------------------------------------------------- SpecAttn: attention
\* The caller holds one set of vectors, well-formed or not, and calls
\* attention() and blockAttention() on it with every block size within
\* bounds.
InitAttn ==
  /\ RouterInit({ Config(<< EpsUnit, 1, 2 >>, 3) })
  /\ FlashInit(NarrowInputs \cup WideInputs \cup EmptyInputs
                 \cup CountMismatch \cup FirstDimMismatch \cup RaggedInputs)

NextAttn ==
  \/ Attention
  \/ BlockAttention(1..MaxBlockSize)
  \/ BlockStep
  \/ BlockReturn

SpecAttn == InitAttn /\ [][NextAttn]_vars

\* ------------------------------------------------ SpecDecay: decay laws
\* Routers that differ only in explorationDecayType: 1.0 down to 0.25 with
\* explorationDecay 2.
DecayTypes == { "linear", "exponential", "cosine" }

InitDecay ==
  /\ RouterInit({ ConfigOfType(<< EpsUnit, 1, 2 >>, 3, ty) : ty \in DecayTypes })
  /\ FlashInit({ NoInputs })

NextDecay ==
  \/ Route({ TextA }, { NumActions })
  \/ Update(ImportCalls)
  \/ Reset
  \/ Export
  \/ Import({ DataOne })

SpecDecay == InitDecay /\ [][NextDecay]_vars

\* One key and one value: attention() takes the direct computation for up
\* to BlockThreshold queries and the tiled one from BlockThreshold + 1 on.
ManyQueries == BlockThreshold + 1

SingleKeyInputs ==
  ({ QueryRows(n) : n \in 1..MaxQueries }
     \X { << k >> : k \in KeyVectors }
     \X { << v >> : v \in ValueVectors \cup { << 0 >>, << 3 >> } })
  \cup ({ QueryRows(ManyQueries) } \X { << << 1 >> >> }
          \X { << << -1 >> >>, << << 3 >> >> })
  \cup { << << << 1, 1, 0, 0 >>, << 0, -1, 1, 1 >> >>,
            << << 1, 0, 1, -1 >> >>, << << 1, -1, 0, 3 >> >> >> }

InitSingleKey ==
  /\ RouterInit({ Config(<< EpsUnit, 1, 2 >>, 3) })
  /\ FlashInit(SingleKeyInputs)

NextSingleKey ==
  \/ Attention
  \/ BlockAttention(1..MaxBlockSize \cup { DefaultBlockSize })
  \/ BlockStep
  \/ BlockReturn

SpecSingleKey == InitSingleKey /\ [][NextSingleKey]_vars

\* The first call on a new router, a route() or an update(), for every task
\* text of up to MaxTextLen code units out of NUL, "a" and U+FFFF, and after
\* an update() the route() calls of the text just learned.
MaxTextLen == 6

HashTexts ==
  UNION { [ 1..n -> { 0, 97, 65535 } ] : n \in 0..MaxTextLen }

InitHash == Init

NextHash ==
  \/ /\ last.op = "new"
     /\ Update(HashTexts \X { "coder" } \X { Unit } \X { NoNext })
  \/ last.op = "new" /\ Route(HashTexts, { NumActions })
  \/ last.op = "update" /\ Route({ last.taskContext }, { NumActions })

SpecHash == InitHash /\ [][NextHash]_vars

\* Queries << 13 >>, << -1 >>, << 1 >>, ... against keys << 0 >> and << 1 >>:
\* raw scores 0, 13, -1 and 1, so that exp(score - maximum) goes down to
\* Exp of -13, here 4^-13, below half a unit in the last place of a
\* single-precision 1.
SteepRows(n) ==
  [ i \in 1..n |->
      IF i % 3 = 1 THEN << 13 >> ELSE IF i % 3 = 2 THEN << -1 >> ELSE << 1 >> ]

SteepInputs ==
  UNION { { SteepRows(n) } \X [ 1..m -> KeyVectors ]
            \X { [ j \in 1..m |-> << 1 >> ] } :
          n \in 1..MaxQueries, m \in 1..MaxKeys }

InitSteep ==
  /\ RouterInit({ Config(<< EpsUnit, 1, 2 >>, 3) })
  /\ FlashInit(SteepInputs)

NextSteep ==
  \/ BlockAttention(1..MaxBlockSize)
  \/ BlockStep
  \/ BlockReturn

SpecSteep == InitSteep /\ [][NextSteep]_vars

\* Inputs on both sides of attention()'s threshold: N * M = 1024 and 1025
\* with one key, 1024 and 1026 with two keys, 1023 and 1026 with three.
AroundThreshold(m) ==
  { QueryRows(BlockThreshold \div m), QueryRows(BlockThreshold \div m + 1) }

DispatchInputs ==
  (AroundThreshold(1) \X { << << 1 >> >> } \X { << << 1 >> >>, << << -1 >> >> })
  \cup (AroundThreshold(2) \X [ 1..2 -> KeyVectors ]
          \X { << << 1 >>, << -1 >> >> })
  \cup (AroundThreshold(3) \X [ 1..3 -> KeyVectors ]
          \X { << << 1 >>, << 1 >>, << -1 >> >> })

InitDispatch ==
  /\ RouterInit({ Config(<< EpsUnit, 1, 2 >>, 3) })
  /\ FlashInit(DispatchInputs)

NextDispatch ==
  \/ Attention
  \/ BlockStep
  \/ BlockReturn

SpecDispatch == InitDispatch /\ [][NextDispatch]_vars

\* Inputs of one and the same key and value, small ones and 342 queries
\* against three keys; and 33 queries against the 32 keys << 1 >>, ...,
\* << 7 >>, << 0 >>, << 1 >>, ..., which attention() takes by the tiled path
\* (1056 pairs) in one block of 64.
SameKeys(n, m) ==
  << QueryRows(n), [ j \in 1..m |-> << 1 >> ], [ j \in 1..m |-> << 1 >> ] >>

OneBlockInput ==
  << QueryRows(33), [ j \in 1..32 |-> << j % 8 >> ],
     [ j \in 1..32 |-> << 1 >> ] >>

BufferInputs ==
  { SameKeys(n, m) : n \in 1..MaxQueries, m \in 1..MaxKeys }
  \cup { SameKeys(BlockThreshold \div 3 + 1, 3), OneBlockInput }

InitBuffer ==
  /\ RouterInit({ Config(<< EpsUnit, 1, 2 >>, 3) })
  /\ FlashInit(BufferInputs)

NextBuffer ==
  \/ Attention
  \/ BlockAttention(1..MaxBlockSize)
  \/ BlockStep
  \/ BlockReturn

SpecBuffer == InitBuffer /\ [][NextBuffer]_vars

\* ------------------------------------------------- SpecFrame: one update
\* Updates with and without a next state, rewards 1 and 0, on tables that
\* import() loaded up to and above capacity.
FrameCalls ==
  ({ TextA, TextAa } \X { "coder" } \X { Unit, 0 } \X { NoNext, TextBB })
  \cup { << TextEmpty, "tester", Unit, TextA >> }

InitFrame ==
  /\ RouterInit({ Config(<< EpsUnit, 1, 2 >>, ms) : ms \in Capacities })
  /\ FlashInit({ NoInputs })

NextFrame ==
  \/ Update(FrameCalls)
  \/ Reset
  \/ Import({ DataOne, DataFour })

SpecFrame == InitFrame /\ [][NextFrame]_vars

\* ------------------------------------------- SpecTerminate: block sizes
\* Block sizes 0 and -1 next to the usual ones: blockAttention() called with
\* them on inputs of one to MaxQueries queries and one to MaxKeys keys, and
\* setConfig() followed by attention() on an input that attention() sends
\* down the tiled path. A call in progress runs on: the loop takes its next
\* pass whenever there is one, and the method returns when the loops are
\* done. A pass is a step of BlockStep, and it moves the loop variables or
\* nothing at all, so fairness is stated for the loop headers and the exit.
BlockSizes == { -1, 0, 1, 2 }
ConfigSizes == { -1, 0, DefaultBlockSize }

TerminateInputs ==
  UNION { { QueryRows(n) } \X { [ j \in 1..m |-> << 1 >> ] }
            \X { [ j \in 1..m |-> << 1 >> ] } :
          n \in 1..MaxQueries, m \in 1..MaxKeys }
  \cup { << QueryRows(ManyQueries), << << 1 >> >>, << << -1 >> >> >> }

InitTerminate ==
  /\ RouterInit({ Config(<< EpsUnit, 1, 2 >>, 3) })
  /\ FlashInit(TerminateInputs)

NextTerminate ==
  \/ SetConfig(ConfigSizes)
  \/ Attention
  \/ Len(inputs[1]) <= MaxQueries /\ BlockAttention(BlockSizes)
  \/ BlockStep
  \/ BlockReturn

\* Where a call is: what the loop headers and the return read and write.
loopVars == << pc, kStart, qStart >>

SpecTerminate ==
  /\ InitTerminate
  /\ [][NextTerminate]_vars
  /\ WF_loopVars(LoopControl)
  /\ WF_loopVars(LoopDone)

\* ================================================================ claims
\* The calls: the step just taken is a call of update() / route() / import().
Updated == last'.op = "update" /\ last'.recognized
UpdateCalled == last'.op = "update"
Routed == last'.op = "route"
Imported == last'.op = "import"

\* The entry of the state the last update() was for, before and after it.
CallKey == hashState(last'.taskContext)
OldQ == getQValues(qTable, config, CallKey)[last'.actionIdx]
OldVisits ==
  IF Pos(qTable, CallKey) = 0 THEN 0 ELSE qTable[Pos(qTable, CallKey)].visits

\* C1 as claimed: update() with a recognized label returns target - Q(s)[a],
\* leaves Q(s)[a] + learningRate * tdError stored in the entry, and raises the
\* entry's visit count by one.
C1_Claimed ==
  [][ Updated =>
        /\ last'.returned = last'.targetQ - OldQ
        /\ Pos(qTable', CallKey) # 0
        /\ qTable'[Pos(qTable', CallKey)].qValues[last'.actionIdx]
             = OldQ + MulFrac(config.learningRate, last'.returned)
        /\ qTable'[Pos(qTable', CallKey)].visits = OldVisits + 1 ]_vars

\* C2: route() changes neither the Q-table nor epsilon, stepCount, updateCount
\* or avgTDError, whatever the text and the explore flag.
C2_RoutePure ==
  [][ Routed => UNCHANGED << qTable, epsilon, stepCount, updateCount,
                             avgTDError >> ]_vars

\* route() was called with explore = true, took the random branch, and the
\* state it looked up has no entry in a table that holds others.
C2_Witness ==
  /\ last.op = "route" /\ last.explore /\ last.decision.explored
  /\ qTable # << >>
  /\ Pos(qTable, hashState(last.taskContext)) = 0

\* C3: with explore = false the route returned is the first of the routes
\* whose value is maximal for the state, whatever the random draws.
C3_GreedyLowestIndex ==
  (last.op = "route" /\ ~last.explore) =>
    LET q == getQValues(qTable, config, hashState(last.taskContext))
        d == last.decision
    IN  /\ ~d.explored
        /\ d.qValues = q
        /\ \E i \in 1..NumActions :
             /\ d.route = ROUTE_NAMES[i]
             /\ \A j \in 1..NumActions : q[j] <= q[i]
             /\ \A j \in 1..(i - 1) : q[j] < q[i]
        /\ \A r \in 1..NumActions :
             d = RouteDecision(qTable, config, last.taskContext, FALSE, r)

\* A greedy route() answered "coder" for a state where coder and tester tie
\* for a maximum above the untouched routes.
C3_Witness ==
  /\ last.op = "route" /\ ~last.explore
  /\ last.decision.route = "coder"
  /\ last.decision.qValues[1] = last.decision.qValues[2]
  /\ last.decision.qValues[1] > 0

\* C4 as claimed: for every configuration, no update() call raises epsilon
\* and epsilon after the call is at least explorationFinal.
C4_Claimed ==
  [][ Updated =>
        /\ epsilon' <= epsilon
        /\ epsilon' >= config.explorationFinal ]_vars

\* explorationDecay is positive and explorationFinal is not above
\* explorationInitial.
DecreasingSchedule ==
  /\ config.explorationDecay > 0
  /\ config.explorationFinal <= config.explorationInitial

\* C4 as amended: for every configuration with a positive explorationDecay
\* and explorationFinal <= explorationInitial, no update() call raises
\* epsilon and epsilon after the call is at least explorationFinal.
C4_EpsilonDecays ==
  [][ (Updated /\ DecreasingSchedule) =>
        /\ epsilon' <= epsilon
        /\ epsilon' >= config.explorationFinal ]_vars

\* Two updates in a row under a decreasing schedule: epsilon has come down
\* from explorationInitial and rests on the floor explorationFinal.
C4_Witness ==
  /\ DecreasingSchedule
  /\ last.op = "update" /\ last.recognized
  /\ stepCount = 2
  /\ epsilon = config.explorationFinal
  /\ epsilon < config.explorationInitial

\* C5 as claimed: after every update() call the table holds at most
\* maxStates entries, whatever it held before.
C5_Claimed ==
  [][ UpdateCalled => Len(qTable') <= config.maxStates ]_vars

\* C5 as amended: after every update() call with a recognized route label
\* the table holds at most maxStates entries, whatever it held before.
C5_WithinCapacity ==
  [][ Updated => Len(qTable') <= config.maxStates ]_vars

\* An update() pruned a table that import() had loaded with four entries,
\* one more than maxStates: the updated entry and the imported state_98 are
\* what is left.
C5_Witness ==
  /\ last.op = "update" /\ last.recognized /\ last.pruned
  /\ config.maxStates = 3
  /\ Keys(qTable) = { hashState(last.taskContext), "state_98" }

\* C6 as claimed: when update() prunes, the entry of the state it updated
\* is still in the table afterwards.
C6_Claimed ==
  [][ (Updated /\ last'.pruned) => CallKey \in Keys(qTable') ]_vars

\* C9: what a fresh router of the same configuration holds after importing
\* this router's export() gives, for every text whose state is in the
\* table, the same greedy decision as this router.
C9_RoundTrip ==
  \A text \in { TextEmpty, TextA, TextAa, TextBB }, t \in 0..MaxNow :
    hashState(text) \in Keys(qTable) =>
      RouteDecision(ImportOutcome(AsData(ExportTable(qTable)), t).table,
                    config, text, FALSE, 1)
        = RouteDecision(qTable, config, text, FALSE, 1)

\* update() has left the state of "a" in the table with tester as its
\* greedy route.
C9_Witness ==
  /\ hashState(TextA) \in Keys(qTable)
  /\ RouteDecision(qTable, config, TextA, FALSE, 1).route = "tester"
  /\ last.op = "update"

\* C10 as claimed: import() of data with a missing entry or an entry that
\* does not hold one value per route throws and leaves the table and the
\* statistics as they were.
C10_Claimed ==
  [][ (Imported /\ ~WellFormed(last'.data)) =>
        /\ last'.threw
        /\ UNCHANGED << qTable, epsilon, stepCount, updateCount,
                        avgTDError >> ]_vars

\* The step just taken is update() with an action that is no route label.
UnknownAction ==
  /\ last'.op = "update"
  /\ \A i \in 1..Len(ROUTE_NAMES) : ROUTE_NAMES[i] # last'.action

\* C11: update() with an action that is not a route label returns 0 and
\* leaves the Q-table (no entry is created), epsilon, stepCount, updateCount
\* and avgTDError as they were.
C11_UnknownActionNoOp ==
  [][ UnknownAction =>
        /\ last'.returned = 0
        /\ UNCHANGED << qTable, epsilon, stepCount, updateCount,
                        avgTDError >> ]_vars

\* update("a", "planner", 1) has returned 0 on a router that has learned
\* about another state and holds no entry for "a".
C11_Witness ==
  /\ last.op = "update" /\ last.action = "planner" /\ last.returned = 0
  /\ updateCount > 0
  /\ qTable # << >>
  /\ hashState(TextA) \notin Keys(qTable)

\* C12 as claimed: the target of update() is the reward when no next task
\* text is given, and reward + gamma * (the largest value of the next
\* state, 0 where it has no entry) when one is given, the empty string
\* included.
C12_Claimed ==
  [][ Updated =>
        last'.targetQ =
          IF last'.nextContext = NoNext THEN last'.reward
          ELSE last'.reward
               + MulFrac(config.gamma,
                         MaxOf(getQValues(qTable, config,
                                          hashState(last'.nextContext)), 1))
    ]_vars

\* C13 as claimed: the alternatives of every route() call, exploring or
\* not, are three routes other than the returned one, in descending order
\* of value, and no route left out (the returned one aside) has a value
\* above theirs.
C13_Claimed ==
  last.op = "route" =>
    LET d == last.decision
        alts == d.alternatives
        listed == { alts[p].route : p \in 1..Len(alts) }
    IN  /\ Len(alts) = 3
        /\ Cardinality(listed) = 3
        /\ d.route \notin listed
        /\ \A p \in 1..3 :
             alts[p].score = d.qValues[IndexOfRoute(alts[p].route)]
        /\ \A p \in 1..2 : alts[p].score >= alts[p + 1].score
        /\ \A i \in 1..NumActions :
             ROUTE_NAMES[i] \notin (listed \cup { d.route })
               => d.qValues[i] <= alts[3].score

\* C14 as claimed: after the k-th successful update epsilon is what the law
\* named by explorationDecayType gives for step k.  With d for
\* explorationDecay and initial > final, the formula asks of each law only
\* what follows from it:
\*   linear       epsilon = max(final, initial - k/d);
\*   exponential  epsilon > final + (initial - final) * (1 - k/d),
\*                since exp(-x) > 1 - x for x > 0;
\*   cosine       epsilon = (initial + final) / 2 at k = d/2 and
\*                epsilon = final from k = d on.
C14_Claimed ==
  [][ Updated =>
        LET k == stepCount'
            d == config.explorationDecay
            initial == config.explorationInitial
            final == config.explorationFinal
            ty == config.explorationDecayType
        IN  /\ ty = "linear" =>
                 epsilon' = Max2(final, initial - (k * EpsUnit) \div d)
            /\ ty = "exponential" =>
                 (epsilon' - final) * d > (initial - final) * (d - k)
            /\ ty = "cosine" =>
                 /\ 2 * k = d => 2 * epsilon' = initial + final
                 /\ k >= d => epsilon' = final ]_vars

\* The values the table holds for a state key: its entry's, or zeros.
Stored(tbl, stateKey) ==
  IF \E i \in 1..Len(tbl) : tbl[i].key = stateKey
    THEN (CHOOSE e \in { tbl[i] : i \in 1..Len(tbl) } :
            e.key = stateKey).qValues
    ELSE [ i \in 1..NumActions |-> 0 ]

\* C15: in every interleaving of route() and update() calls, the values of
\* the decision route() returns are the values the Q-table holds for the
\* state key at that call, and a route(text, explore = false) returns the
\* first route that is maximal among them.
C15_RouteReadsCurrent ==
  [][ Routed =>
        LET current == Stored(qTable', hashState(last'.taskContext))
        IN  /\ last'.decision.qValues = current
            /\ ~last'.explore =>
                 /\ \E i \in 1..NumActions :
                      /\ last'.decision.route = ROUTE_NAMES[i]
                      /\ \A j \in 1..NumActions : current[j] <= current[i]
                      /\ \A j \in 1..(i - 1) : current[j] < current[i] ]_vars

\* route("a", false) after two updates of "a": the decision carries the
\* twice-updated value of coder.
C15_Witness ==
  /\ last.op = "route" /\ ~last.explore /\ last.taskContext = TextA
  /\ updateCount = 2
  /\ \E i \in 1..Len(qTable) :
       /\ qTable[i].key = hashState(TextA)
       /\ qTable[i].visits = 2
       /\ qTable[i].qValues[1] > Half
       /\ last.decision.qValues[1] = qTable[i].qValues[1]

\* The states the decision cache holds an entry for.
CachedKeys == { routeCache[i].key : i \in 1..Len(routeCache) }

\* C16 as the text states it: a route(text, false) leaves the decision of
\* that text's state in the decision cache, from where a second call within
\* the time-to-live is answered; the cache therefore holds an entry of the
\* state after every such call.
C16_Claimed ==
  last.op = "route" /\ ~last.explore =>
    hashState(last.taskContext) \in CachedKeys

\* The experience of the last successful update().
LastExperience ==
  [ stateKey |-> CallKey, actionIdx |-> last'.actionIdx,
    reward |-> last'.reward ]

\* The experiences the replay buffer holds, without their next state and
\* their time.
BufferedExperiences ==
  { [ stateKey |-> replayBuffer'[i].stateKey,
      actionIdx |-> replayBuffer'[i].actionIdx,
      reward |-> replayBuffer'[i].reward ] : i \in 1..Len(replayBuffer') }

\* C17 as the text states it: with replay enabled every successful update()
\* stores its transition in the replay buffer, so the buffer then holds the
\* transition as its most recent experience and totalExperiences is one
\* higher.
C17_Claimed ==
  [][ Updated /\ config.enableReplay =>
        /\ LastExperience \in BufferedExperiences
        /\ totalExperiences' = totalExperiences + 1 ]_vars

\* A router as its constructor leaves it, as the record of its fields.
NewRouter(cfg) ==
  [ qTable |-> << >>, epsilon |-> cfg.explorationInitial, stepCount |-> 0,
    updateCount |-> 0, avgTDError |-> 0 ]

\* The router of this model, as the record of its fields.
ThisRouter ==
  [ qTable |-> qTable, epsilon |-> epsilon, stepCount |-> stepCount,
    updateCount |-> updateCount, avgTDError |-> avgTDError ]

\* The router after import(data) at time t: only the table is assigned.
AfterImport(router, data, t) ==
  [ router EXCEPT !.qTable = ImportOutcome(data, t).table ]

\* getStats()
getStats(router) ==
  [ updateCount |-> router.updateCount, qTableSize |-> Len(router.qTable),
    epsilon |-> router.epsilon, avgTDError |-> router.avgTDError,
    stepCount |-> router.stepCount ]

\* The statistics of a new router of this configuration that has imported
\* what this router exports.
RestoredStats(t) ==
  getStats(AfterImport(NewRouter(config), AsData(ExportTable(qTable)), t))

\* C18 as the text states it: a new router that imports what another router
\* exports reports the exporter's stepCount, updateCount, avgTDError and
\* epsilon.
C18_Claimed ==
  \A t \in 0..MaxNow :
    /\ RestoredStats(t).stepCount = getStats(ThisRouter).stepCount
    /\ RestoredStats(t).updateCount = getStats(ThisRouter).updateCount
    /\ RestoredStats(t).avgTDError = getStats(ThisRouter).avgTDError
    /\ RestoredStats(t).epsilon = getStats(ThisRouter).epsilon

\* The table holds nothing but what updates of the one state with the one
\* action and reward 1 leave: no other state, no value for another action.
TrainedOnly(tbl, stateKey, actionIdx) ==
  /\ Keys(tbl) \subseteq { stateKey }
  /\ \A i \in 1..NumActions :
       IF i = actionIdx THEN Stored(tbl, stateKey)[i] \in 0..Unit
       ELSE Stored(tbl, stateKey)[i] = 0

\* Confidence c = exp(c.num) / sum of exp(c.den[i]) is strictly above u:
\* the numerators are equal and the sum of c is strictly below that of u,
\* term by term.
MoreConfident(c, u) ==
  /\ c.num = u.num
  /\ \A i \in 1..NumActions : c.den[i] <= u.den[i]
  /\ \E i \in 1..NumActions : c.den[i] < u.den[i]

\* The texts whose state has no entry in the table.
Untrained(tbl) ==
  { text \in { TextEmpty, TextA, TextAa, TextBB } :
      hashState(text) \notin Keys(tbl) }

\* C20: an update() with reward 1 and no next state, on a router that has
\* seen nothing but such updates of this text with this action since it was
\* new, leaves a table of the same kind from which route(text, false)
\* returns the action, with a confidence strictly above that of every state
\* without an entry.  From the new router on, this holds after each of the
\* n >= 1 updates.
C20_TrainedRouteConfident ==
  [][ ( /\ Updated
        /\ last'.reward = Unit /\ last'.nextContext = NoNext
        /\ TrainedOnly(qTable, CallKey, last'.actionIdx) )
      => LET d == RouteDecision(qTable', config, last'.taskContext, FALSE, 1)
         IN  /\ TrainedOnly(qTable', CallKey, last'.actionIdx)
             /\ Stored(qTable', CallKey)[last'.actionIdx] > 0
             /\ d.route = last'.action
             /\ ~d.explored
             /\ Untrained(qTable') # { }
             /\ \A text \in Untrained(qTable') :
                  MoreConfident(d.confidence,
                                RouteDecision(qTable', config, text,
                                              FALSE, 1).confidence) ]_vars

\* The second update('a', 'tester', 1) on a new router has been made: the
\* table holds the state of "a" only, and tester's value is above what one
\* update gives.
C20_Witness ==
  /\ last.op = "update" /\ last.recognized
  /\ last.taskContext = TextA /\ last.action = "tester"
  /\ last.reward = Unit /\ last.nextContext = NoNext
  /\ updateCount = 2
  /\ Keys(qTable) = { hashState(TextA) }
  /\ TrainedOnly(qTable, hashState(TextA), 2)
  /\ Stored(qTable, hashState(TextA))[2] > Half
  /\ RouteDecision(qTable, config, TextA, FALSE, 1).route = "tester"

\* 31 * h + c wrapped to 32 bits, by multiplication on the 16-bit halves of
\* the signed 32-bit h.
Times31Plus(h, c) ==
  LET lo == 31 * Lo16(h) + c
      hi == 31 * Hi16(h) + (lo \div 65536)
      top == hi % 65536
  IN  (IF top >= 32768 THEN top - 65536 ELSE top) * 65536 + (lo % 65536)

RECURSIVE Fold31(_, _, _)
\* h := 31 * h + charCode wrapped, over every code unit from position i on.
Fold31(h, text, i) ==
  IF i > Len(text) THEN h ELSE Fold31(Times31Plus(h, text[i]), text, i + 1)

\* C21: the key under which update(text, ...) files the state is "state_"
\* followed by the signed 32-bit number obtained by folding
\* h := 31 * h + charCode, wrapped to 32 bits, over every code unit of the
\* text from h = 0; the empty text has state_0, and route() reads the state
\* under the same key.
C21_HashIsFold31 ==
  /\ (last.op = "update" /\ last.recognized) =>
       /\ Keys(qTable)
            = { "state_" \o ToString(Fold31(0, last.taskContext, 1)) }
       /\ last.taskContext = TextEmpty => Keys(qTable) = { "state_0" }
       /\ Hi16(Fold31(0, last.taskContext, 1)) \in -32768..32767
  /\ last.op = "route" =>
       /\ hashState(last.taskContext)
            = "state_" \o ToString(Fold31(0, last.taskContext, 1))
       /\ last.decision.qValues
            = Stored(qTable,
                     "state_" \o ToString(Fold31(0, last.taskContext, 1)))

\* update() has filed a text of MaxTextLen code units whose fold has wrapped
\* to a negative number.
C21_Witness ==
  /\ last.op = "update" /\ last.recognized
  /\ Len(last.taskContext) = MaxTextLen
  /\ last.taskContext[1] = 65535
  /\ Fold31(0, last.taskContext, 1) < 0
  /\ Keys(qTable) = { hashState(last.taskContext) }

\* The lastUpdate stamps of the entries the last update() evicted: entries
\* of the table before the call carry their stamp, the entry of the updated
\* state carries the time of the call.
EvictedStamps ==
  { qTable[i].lastUpdate :
      i \in { j \in 1..Len(qTable) :
                qTable[j].key \notin Keys(qTable') \cup { CallKey } } }
  \cup (IF CallKey \in Keys(qTable') THEN { } ELSE { now' })

RemainingStamps == { qTable'[i].lastUpdate : i \in 1..Len(qTable') }

\* C22: whenever update() prunes, the table afterwards holds exactly
\* floor(0.8 * maxStates) entries, the number n with
\* 10 n <= 8 maxStates < 10 (n + 1), and no evicted entry was updated later
\* than an entry that remains.
C22_PruneToFourFifths ==
  [][ (Updated /\ last'.pruned) =>
        /\ 10 * Len(qTable') <= 8 * config.maxStates
        /\ 8 * config.maxStates < 10 * (Len(qTable') + 1)
        /\ \A e \in EvictedStamps, r \in RemainingStamps : e <= r ]_vars

\* An update() of "Aa" has pruned the four imported entries down to two for
\* maxStates = 3: two entries of the import's time are gone, the updated
\* entry and the last imported one remain.
C22_Witness ==
  /\ last.op = "update" /\ last.recognized /\ last.pruned
  /\ last.taskContext = TextAa
  /\ config.maxStates = 3
  /\ Len(qTable) = 2
  /\ qTable[1].key = "state_2112" /\ qTable[2].key = "state_98"
  /\ qTable[1].lastUpdate > qTable[2].lastUpdate

\* C27: stepCount and updateCount are equal in every reachable state, and
\* both count the update() calls with a recognized action made since
\* construction or the last reset(): both are 0 after construction, each
\* such update adds one to both, reset() sets both to 0, and route(), export(),
\* import() and an update() with an unknown action leave both as they are.
CountersStep ==
  /\ stepCount' = updateCount'
  /\ Updated => stepCount' = stepCount + 1 /\ updateCount' = updateCount + 1
  /\ last'.op = "reset" => stepCount' = 0 /\ updateCount' = 0
  /\ ~Updated /\ last'.op # "reset" =>
       stepCount' = stepCount /\ updateCount' = updateCount

C27_CountersCountUpdates ==
  /\ stepCount = 0 /\ updateCount = 0
  /\ [][CountersStep]_vars

\* an update() with an unknown action after two recognized ones: both
\* counters still 2
C27_Witness ==
  /\ last.op = "update"
  /\ ~last.recognized
  /\ stepCount = 2
  /\ updateCount = 2

\* C28: in every reachable state every Q-table entry holds exactly numActions
\* values, one per route, also after import(); so the cell update() reads and
\* writes, qValues[actionIdx], is always inside the entry's array.
C28_Claimed ==
  \A p \in 1..Len(qTable) : Len(qTable[p].qValues) = config.numActions

\* The entry filed under a key, and the entry update() starts from: the one
\* in the table, or the one getOrCreateEntry makes.
EntryOf(tbl, key) == tbl[Pos(tbl, key)]
EntryBefore(key) ==
  IF key \in Keys(qTable) THEN EntryOf(qTable, key)
  ELSE [ key |-> key, qValues |-> Zeros(config.numActions), visits |-> 0 ]
NextKey == hashState(last'.nextContext)

\* What update() leaves alone: it adds at most one entry, the one for the
\* state key of text, and never one for the state key of nextText; the other
\* action values of that entry, and the values and the visit counts of every
\* other entry that stays in the table, are as they were.
FrameKept ==
  /\ Keys(qTable') \ Keys(qTable) \subseteq { CallKey }
  /\ Truthy(last'.nextContext) /\ NextKey # CallKey
       /\ NextKey \notin Keys(qTable)
       => NextKey \notin Keys(qTable')
  /\ \A key \in Keys(qTable') :
       LET old == EntryBefore(key)
           new == EntryOf(qTable', key)
       IN  /\ Len(new.qValues) = Len(old.qValues)
           /\ \A a \in 1..Len(new.qValues) :
                key # CallKey \/ a # last'.actionIdx
                  => new.qValues[a] = old.qValues[a]
           /\ key # CallKey => new.visits = old.visits

\* The cell (state key of text, action) holds another value than before.
CellChanged ==
  /\ CallKey \in Keys(qTable')
  /\ EntryOf(qTable', CallKey).qValues[last'.actionIdx]
       # EntryBefore(CallKey).qValues[last'.actionIdx]

\* C29 as claimed: a successful update(text, action, reward, nextText)
\* changes the value of exactly one cell, (state key of text, action), and
\* leaves everything else of the table that stays as it was.
C29_Claimed == [][ Updated => FrameKept /\ CellChanged ]_vars

\* C29: a successful update(text, action, reward, nextText) changes the
\* value of at most one cell, (state key of text, action): it adds at most
\* one entry, the one for the state key of text and never one for the state
\* key of nextText, and it leaves the other action values of that entry and
\* the values and visit counts of every other entry that stays in the table
\* unchanged.
C29_UpdateFrame == [][ Updated => FrameKept ]_vars

\* an update with a next state that has no entry, on a table that holds
\* another entry: the cell changed, and the next state still has no entry
C29_Witness ==
  /\ last.op = "update"
  /\ last.recognized
  /\ last.returned # 0
  /\ Truthy(last.nextContext)
  /\ hashState(last.nextContext) \notin Keys(qTable)
  /\ hashState(last.taskContext) \in Keys(qTable)
  /\ Len(qTable) >= 2

\* ------------------------------------------------------- attention claims
\* A direct call of blockAttention has returned.
BlockReturned ==
  pc = "idle" /\ result.op = "blockAttention" /\ result.returned

\* What naiveAttention returns for the caller's vectors.
Direct == naiveAttention(inputs[1], inputs[2], inputs[3], flashConfig)

\* exp(score - row maximum) of query i and key j, unrounded.
ExpScore(i, j) ==
  LET sc == scale(Len(inputs[1][1]), flashConfig)
      row == [ k \in 1..Len(inputs[2]) |->
                 dotProduct(inputs[1][i], inputs[2][k]) * sc ]
  IN  Exp(row[j] - SeqMax(row, 1, NegInfinity))

\* The values weighted by exp(score) / (sum of exp(score) over all keys),
\* in exact arithmetic and rounded once.
Weighted(i, d) ==
  LET M == Len(inputs[2])
  IN  FroundDiv(SeqSum([ j \in 1..M |-> ExpScore(i, j) * inputs[3][j][d] ], 1),
                SeqSum([ j \in 1..M |-> ExpScore(i, j) ], 1))

\* 1e-4
Tolerance == AttnUnit \div 10000

Dimensions ==
  UNION { { Len(inputs[s][i]) : i \in 1..Len(inputs[s]) } : s \in 1..3 }

\* C8: attention(Q, K, V) throws, with no score computed and no output
\* returned, whenever one of Q, K, V is empty, the numbers of keys and of
\* values differ, or the vectors are not all of one dimension.
C8_Claimed ==
  ( /\ result.op = "attention"
    /\ \/ \E s \in 1..3 : Len(inputs[s]) = 0
       \/ Len(inputs[2]) # Len(inputs[3])
       \/ Cardinality(Dimensions) > 1 )
  => result.threw /\ ~result.returned /\ scoresComputed = 0



\* attention() or blockAttention() has returned for one key and one value.
SingleKeyReturned ==
  /\ pc = "idle"
  /\ result.op \in { "attention", "blockAttention" }
  /\ result.returned
  /\ Len(inputs[2]) = 1

RawScore(i, j) ==
  Fround(dotProduct(inputs[1][i], inputs[2][j])
         * scale(Len(inputs[1][1]), flashConfig))

\* The number of keys accumulated for query i when the loops stand at
\* kStart and qStart: the query blocks before qStart have taken the key
\* block at kStart already.
KeysDone(i) ==
  IF i <= qStart THEN Min2(kStart + args.blockSize, Len(inputs[2]))
  ELSE Min2(kStart, Len(inputs[2]))

\* The maximum raw score of query i over its first n keys, -Infinity for
\* n = 0.
MaxRaw(i, n) == SeqMax([ j \in 1..n |-> RawScore(i, j) ], 1, NegInfinity)

\* The sum of exp(score - maximum) of query i over its first n keys, in
\* exact arithmetic.
ExactSumExp(i, n) ==
  SeqSum([ j \in 1..n |-> Exp(RawScore(i, j) - MaxRaw(i, n)) ], 1)

\* The running maxima are those of the keys accumulated so far and do not
\* decrease from one block to the next.
RunningMaxima ==
  /\ \A i \in 1..Len(inputs[1]) : maxScores'[i] = MaxRaw(i, KeysDone(i)')
  /\ pc = "block" =>
       \A i \in 1..Len(inputs[1]) : maxScores'[i] >= maxScores[i]

Visited(kS, qS, blockSize) ==
  { << i, j >> \in (1..Len(inputs[1])) \X (1..Len(inputs[2])) :
      \/ j <= kS
      \/ j <= kS + blockSize /\ i <= qS }

\* The pairs of the block at kStart and qStart.
BlockPairs ==
  { << i, j >> \in (1..Len(inputs[1])) \X (1..Len(inputs[2])) :
      /\ qStart < i /\ i <= qStart + args.blockSize
      /\ kStart < j /\ j <= kStart + args.blockSize }

\* C24: every pass of the block loops starts inside the queries and the
\* keys, takes a block of pairs none of which was taken before, each key of
\* it after every key its query has taken so far, and leaves the queries
\* outside the block as they were; when blockAttention returns every pair
\* has been taken, N * M scores in all.  Entering the loops, no pair is
\* taken.
C24_EveryPairOnce ==
  [][ /\ (pc = "idle" /\ pc' = "block") =>
           Visited(kStart', qStart', args'.blockSize) = { } /\ scoresComputed' = 0
      /\ (pc = "block" /\ pc' = "block") =>
           /\ kStart < Len(inputs[2]) /\ qStart < Len(inputs[1])
           /\ BlockPairs # { }
           /\ BlockPairs \cap Visited(kStart, qStart, args.blockSize) = { }
           /\ Visited(kStart', qStart', args.blockSize)
                = Visited(kStart, qStart, args.blockSize) \cup BlockPairs
           /\ \A p \in BlockPairs, v \in Visited(kStart, qStart, args.blockSize) :
                v[1] = p[1] => v[2] < p[2]
           /\ scoresComputed' = scoresComputed + Cardinality(BlockPairs)
           /\ \A i \in 1..Len(inputs[1]) :
                /\ maxScores'[i] = MaxRaw(i, KeysDone(i)')
                /\ (\A j \in 1..Len(inputs[2]) : << i, j >> \notin BlockPairs)
                     => /\ maxScores'[i] = maxScores[i]
                        /\ sumExp'[i] = sumExp[i]
                        /\ output'[i] = output[i]
      /\ (pc = "block" /\ pc' = "idle") =>
           /\ Visited(kStart, qStart, args.blockSize)
                = (1..Len(inputs[1])) \X (1..Len(inputs[2]))
           /\ scoresComputed = Len(inputs[1]) * Len(inputs[2]) ]_vars

\* blockAttention has returned for three queries and three keys taken in
\* blocks of two, which divides neither: nine scores in four blocks.
C24_Witness ==
  /\ BlockReturned
  /\ args.blockSize = 2
  /\ Len(inputs[1]) = 3 /\ Len(inputs[2]) = 3
  /\ scoresComputed = 9


\* The step is a call of attention() that passed validation.
AttentionCalled ==
  /\ pc = "idle"
  /\ result' # result
  /\ result'.op = "attention" /\ ~result'.threw

\* attention() takes the tiled path exactly when N * M > 1024: a call with
\* a larger product enters the block loops with the configured block size,
\* every other call returns what naiveAttention gives.
DispatchAtThreshold ==
  AttentionCalled =>
    IF Len(inputs[1]) * Len(inputs[2]) > 1024
      THEN /\ pc' = "block" /\ ~result'.returned
           /\ args'.blockSize = flashConfig.blockSize
      ELSE /\ pc' = "idle" /\ result'.returned
           /\ result'.output = Direct

\* The step is attention() returning, from either path.
AttentionReturned ==
  /\ pc' = "idle"
  /\ result' # result
  /\ result'.op = "attention" /\ result'.returned

ScoreBuffer ==
  computeBlockScores(inputs[1], inputs[2], qStart,
                     Min2(qStart + args.blockSize, Len(inputs[1])), kStart,
                     Min2(kStart + args.blockSize, Len(inputs[2])),
                     scale(Len(inputs[1][1]), flashConfig))

\* The number of scores a buffer holds.
Cells(buffer) == SeqSum([ qi \in 1..Len(buffer) |-> Len(buffer[qi]) ], 1)

\* A pass of the block loops is due.
InPass == pc = "block" /\ kStart < Len(inputs[2])

\* C26 as the text states it: the score buffer of every pass holds at most
\* blockSize * blockSize scores and is never a matrix of all N * M scores
\* (N * M > 1).
C26_Claimed ==
  InPass =>
    /\ Cells(ScoreBuffer) <= args.blockSize * args.blockSize
    /\ Len(inputs[1]) * Len(inputs[2]) > 1 =>
         Cells(ScoreBuffer) < Len(inputs[1]) * Len(inputs[2])

\* C26, an input of one block allowed for: the score buffer of every pass
\* holds at most blockSize * blockSize scores, one query block against one
\* key block, and it holds all N * M scores only where neither N nor M
\* exceeds the block size.
C26_BufferWithinBlock ==
  InPass =>
    /\ Cells(ScoreBuffer) <= args.blockSize * args.blockSize
    /\ Len(ScoreBuffer) <= args.blockSize
    /\ \A qi \in 1..Len(ScoreBuffer) : Len(ScoreBuffer[qi]) <= args.blockSize
    /\ Cells(ScoreBuffer) <= Len(inputs[1]) * Len(inputs[2])
    /\ Cells(ScoreBuffer) = Len(inputs[1]) * Len(inputs[2]) =>
         Len(inputs[1]) <= args.blockSize /\ Len(inputs[2]) <= args.blockSize

\* attention() is on its tiled path for 33 queries and 32 keys, and the
\* buffer of its only pass holds all 1056 scores.
C26_Witness ==
  /\ InPass
  /\ args.op = "attention"
  /\ Len(inputs[1]) = 33 /\ Len(inputs[2]) = 32
  /\ Cells(ScoreBuffer) = 1056

\* C30 as claimed: blockAttention terminates for every non-empty input and
\* every block size the engine can be configured with, 0 and negative values
\* included: a call that has entered the block loop leaves it, by returning
\* or by throwing.
C30_Claimed == (pc = "block") ~> (pc = "idle")

====
